---------------------------- MODULE Spec2Model ----------------------------
(***************************************************************************)
(* pg-ldap-sync: one run of the LDAP -> PostgreSQL synchronisation.        *)
(*                                                                         *)
(*   cmd/sync/main.go          main: the loop over databases, phases 1-3   *)
(*   internal/ldap/client.go   FetchGroupMembers / fetchMembersRecursive,  *)
(*                             EnsureUsersExist, SyncRoleMembership,       *)
(*                             DeprovisionUsers                            *)
(*                                                                         *)
(* Role names, account names and prefixes are sequences of one-character   *)
(* strings, so that strings.HasPrefix and SQL LIKE are computed character  *)
(* by character.  Distinguished names and object-class names are opaque    *)
(* and are plain strings.  A Go slice that is filled from a map iteration  *)
(* or from the rows of a query has no specified order: it is modelled as   *)
(* the set of its elements and a loop over it takes the elements in any    *)
(* order.  The list FetchGroupMembers returns is a sequence.               *)
(***************************************************************************)
EXTENDS Integers, Sequences, FiniteSets, TLC

(***************************************************************************)
(* Bounds of the model.                                                    *)
(***************************************************************************)
\* member references (edges) of the directories the resolver is run on alone
MaxRefs == 4
\* injected failures (directory lookups, catalog calls) per run
MaxFaults == 1
\* databases of the configuration
NumDatabases == 2
\* accounts in a database's catalog before the run
MaxAccounts == 1

(***************************************************************************)
(* Strings.                                                                *)
(***************************************************************************)
Range(s) == {s[i] : i \in DOMAIN s}

\* every enumeration of the set S as a list without repetition
Perms(S) ==
    {s \in [1..Cardinality(S) -> S] : \A i, j \in 1..Cardinality(S) : s[i] = s[j] => i = j}

\* strings.HasPrefix(s, prefix)
HasPrefix(s, prefix) ==
    /\ Len(prefix) <= Len(s)
    /\ SubSeq(s, 1, Len(prefix)) = prefix

\* s LIKE pattern in PostgreSQL: % is any string, _ is any one character and
\* a backslash makes the character after it literal.
RECURSIVE Like(_, _)
Like(s, pattern) ==
    IF pattern = <<>> THEN s = <<>>
    ELSE IF Head(pattern) = "%"
         THEN \E k \in 0..Len(s) : Like(SubSeq(s, k + 1, Len(s)), Tail(pattern))
    ELSE IF Head(pattern) = "_"
         THEN s # <<>> /\ Like(Tail(s), Tail(pattern))
    ELSE IF Head(pattern) = "\\"
         THEN /\ Len(pattern) >= 2
              /\ s # <<>>
              /\ Head(s) = pattern[2]
              /\ Like(Tail(s), Tail(Tail(pattern)))
    ELSE s # <<>> /\ Head(s) = Head(pattern) /\ Like(Tail(s), Tail(pattern))

\* strings.EqualFold on the object-class names of the model
Lower(oc) ==
    CASE oc = "Group" -> "group"
      [] oc = "GROUPOFNAMES" -> "groupofnames"
      [] oc = "groupOfNames" -> "groupofnames"
      [] oc = "inetOrgPerson" -> "inetorgperson"
      [] oc = "posixGroup" -> "posixgroup"
      [] OTHER -> oc

EqualFold(a, b) == Lower(a) = Lower(b)

(***************************************************************************)
(* Names.                                                                  *)
(***************************************************************************)
n_a == <<"n", "_", "a">>
n_b == <<"n", "_", "b">>
nxa == <<"n", "x", "a">>
nBa == <<"n", "\\", "a">>
svc == <<"s", "v", "c">>

\* c.config.GroupObjectClass and c.config.UserObjectClass
GroupObjectClass == "groupOfNames"
NoUid == <<>>

(***************************************************************************)
(* The directory: DN -> entry.  member is the multi-valued attribute.      *)
(***************************************************************************)
Entry(cn, classes, uid, member) ==
    [cn |-> cn, objectClass |-> classes, uid |-> uid, member |-> member]

\* three groups that can refer to each other and to the leaves, and a fourth
\* elsewhere in the tree with the cn of the second
LinkedDNs == {"G1", "G2", "G3"}
GroupDNs == LinkedDNs \cup {"G4"}
PoolGroup(dn, member) ==
    CASE dn = "G1" -> Entry("top", {"top", "groupOfNames"}, NoUid, member)
      [] dn = "G2" -> Entry("dup", {"GROUPOFNAMES"}, NoUid, member)
      [] dn = "G3" -> Entry("g3", {"Group"}, NoUid, member)
      [] dn = "G4" -> Entry("dup", {"groupOfNames"}, NoUid, member)

\* two accounts (one of a class that is no group to the resolver) and an entry
\* without the identifying attribute
LeafDNs == {"U1", "U2", "U3"}
LeafEntry(dn) ==
    CASE dn = "U1" -> Entry("u1", {"inetOrgPerson"}, n_a, {})
      [] dn = "U2" -> Entry("u2", {"posixGroup"}, n_b, {})
      [] dn = "U3" -> Entry("u3", {"inetOrgPerson"}, NoUid, {})

Refs == LinkedDNs \X (LinkedDNs \cup LeafDNs)

\* the directory whose member references are the pairs of E
DirectoryOf(E) ==
    [dn \in GroupDNs \cup LeafDNs |->
        IF dn \in LeafDNs THEN LeafEntry(dn)
        ELSE PoolGroup(dn, {e[2] : e \in {x \in E : x[1] = dn}})]

RECURSIVE SubsetsUpTo(_, _)
SubsetsUpTo(S, n) ==
    IF n = 0 THEN {{}}
    ELSE LET smaller == SubsetsUpTo(S, n - 1)
         IN smaller \cup {T \cup {x} : T \in smaller, x \in S}

\* the groups the references of E lead to from the groups of S
RECURSIVE Under(_, _)
Under(S, E) ==
    LET further == S \cup {e[2] : e \in {x \in E : x[1] \in S}}
    IN IF further = S THEN S ELSE Under(further, E)

\* the directories the resolver is run on alone: every reference is one the
\* call on the first group can come to
ResolveDirectories ==
    {DirectoryOf(E) :
        E \in {X \in SubsetsUpTo(Refs, MaxRefs) :
                  \A e \in X : e[1] \in Under({"G1"}, X)}}

(***************************************************************************)
(* The catalog of one database: pg_roles and pg_auth_members.              *)
(***************************************************************************)
DefaultPostgresGroup == <<"g">>
r1 == <<"r", "1">>
r2 == <<"r", "2">>
GroupRoles == {DefaultPostgresGroup, r1, r2}
\* the accounts a catalog may hold before the run
Accounts == {n_a, nxa, nBa}

Catalog(roles, members) == [roles |-> roles, members |-> members]

\* an existence check that finds every name
ExistsAlways(c, name) == TRUE

\* SELECT EXISTS(SELECT 1 FROM pg_roles WHERE rolname = $1)
RoleExists(c, name) == name \in c.roles

\* CREATE ROLE name WITH LOGIN
CreateRole(c, name) == [c EXCEPT !.roles = @ \cup {name}]

\* GRANT role TO name is an error unless both roles exist
CanGrant(c, role, name) == role \in c.roles /\ name \in c.roles /\ role # name
GrantRole(c, role, name) == [c EXCEPT !.members = @ \cup {<<role, name>>}]

\* REVOKE role FROM name
RevokeRole(c, role, name) == [c EXCEPT !.members = @ \ {<<role, name>>}]

\* DROP ROLE name: the role and every membership it is part of
DropRole(c, name) ==
    [roles |-> c.roles \ {name},
     members |-> {m \in c.members : m[1] # name /\ m[2] # name}]

\* the WHERE clause built from the prefixes: u.rolname LIKE prefix || '%' OR ...
MatchesWhere(rolname, prefixes) ==
    \E i \in 1..Len(prefixes) : Like(rolname, prefixes[i] \o <<"%">>)

\* the query of SyncRoleMembership and DeprovisionUsers: the direct members
\* of role g that the WHERE clause keeps
ManagedMembers(c, g, prefixes) ==
    {u \in c.roles : /\ g \in c.roles
                     /\ <<g, u>> \in c.members
                     /\ MatchesWhere(u, prefixes)}

\* the catalogs a run starts from: the group roles, and up to MaxAccounts
\* accounts, each a member of some of the group roles
Memberships == {{}, {DefaultPostgresGroup}, {DefaultPostgresGroup, r1, r2}}
CatalogOf(f) ==
    Catalog(GroupRoles \cup DOMAIN f,
            {m \in GroupRoles \X DOMAIN f : m[1] \in f[m[2]]})
\* two members of the default role that no mapping gives a role to
TwoLeft == CatalogOf([a \in {n_a, nxa} |-> {DefaultPostgresGroup}])
Catalogs ==
    {CatalogOf(f) : f \in UNION {[A -> Memberships] : A \in SubsetsUpTo(Accounts, MaxAccounts)}}
        \cup {TwoLeft}

(***************************************************************************)
(* The configuration (config.yml).                                         *)
(***************************************************************************)
RoleMap(role, cn) == [PostgresRole |-> role, LDAPGroupCN |-> cn]
RoleConfigs == {<<RoleMap(r1, "one"), RoleMap(r2, "two")>>,
                <<RoleMap(r1, "one"), RoleMap(r1, "two")>>}
PrefixLists == {<<>>,
                <<<<"n", "_">>>>,
                <<<<"n", "\\">>>>}

(***************************************************************************)
(* The directories a run is made on: the groups "one" and "two" of the     *)
(* role mappings, a nested group, five accounts.                           *)
(***************************************************************************)
UserEntry(uid) == Entry("user", {"inetOrgPerson"}, uid, {})
GroupEntry(cn, member) == Entry(cn, {"groupOfNames"}, NoUid, member)
People == [dn \in {"Ua", "Ub", "Ux", "UB", "Us"} |->
              UserEntry(CASE dn = "Ua" -> n_a [] dn = "Ub" -> n_b [] dn = "Ux" -> nxa
                          [] dn = "UB" -> nBa [] dn = "Us" -> svc)]
WithGroups(groups) ==
    [dn \in DOMAIN People \cup DOMAIN groups |->
        IF dn \in DOMAIN groups THEN groups[dn] ELSE People[dn]]

\* nesting with a cycle, an empty member value, an account outside the prefixes
DirNested ==
    WithGroups([dn \in {"One", "Sub", "Two"} |->
        CASE dn = "One" -> GroupEntry("one", {"Ua", "Sub"})
          [] dn = "Sub" -> GroupEntry("sub", {"Ub", "One", ""})
          [] dn = "Two" -> GroupEntry("two", {"Ua", "Ux"})])
\* accounts of the second group only, a dangling member value
DirPartial ==
    WithGroups([dn \in {"One", "Two"} |->
        CASE dn = "One" -> GroupEntry("one", {"Ub", "Us"})
          [] dn = "Two" -> GroupEntry("two", {"Ua", "UB", "X"})])
\* the second group deleted
DirDeleted ==
    WithGroups([dn \in {"One"} |-> GroupEntry("one", {"Ub"})])
PassDirectories == {DirNested, DirPartial, DirDeleted}

VARIABLES
    directory,        \* the LDAP directory (read only)
    cfg,              \* the configuration (read only)
    cat0,             \* each database's catalog before the run (read only)
    faults,           \* failures injected so far
    rpc,              \* FetchGroupMembers: "idle", "find", "run", "done"
    groupCN,          \* its argument
    stack,            \* the calls of fetchMembersRecursive in progress
    userIDs,          \* map[string]bool of the call
    processedGroups,  \* map[string]bool of the call
    fetched,          \* what FetchGroupMembers returned: [list, err]
    pc,               \* where main is
    db,               \* index of dbCfg in cfg.Databases
    roleIdx,          \* index of roleMap in dbCfg.Roles
    allValidLdapUsers,
    allRoleMappings,  \* map: PostgresRole -> filtered members
    rolesLeft,        \* keys of allRoleMappings phase 2 has yet to take
    pgRole,           \* the key phase 2 is at
    cat,              \* each database's committed catalog
    tx,               \* the open transaction and its view of the catalog
    pools,            \* the databases whose connection pool is open
    usersToCreate,    \* EnsureUsersExist: users the loop has yet to take
    pgManagedMembers, \* rows of the query of phase 2 or phase 3
    usersToGrant,
    usersToRevoke,
    usersToDrop,
    issued,           \* history: the statements sent through the open pool
                      \* that change the catalog
    resolved,         \* history: mapping index -> its filtered members
    errs              \* history: the errors reported, <<db, what>> and
                      \* <<db, "drop", user>>

envVars == <<directory, cfg, cat0>>
resolverVars == <<rpc, groupCN, stack, userIDs, processedGroups, fetched>>
mainVars == <<pc, db, roleIdx, allValidLdapUsers, allRoleMappings, rolesLeft, pgRole>>
pgVars == <<cat, tx, pools, usersToCreate, pgManagedMembers, usersToGrant, usersToRevoke,
            usersToDrop>>
histVars == <<issued, resolved, errs>>
passVars == <<mainVars, pgVars, histVars>>
vars == <<envVars, faults, resolverVars, passVars>>

(***************************************************************************)
(* internal/ldap/client.go: FetchGroupMembers.                             *)
(***************************************************************************)
\* a search that is content with the first of the entries that match
FindFirstMatch(cn) ==
    LET all == {dn \in DOMAIN directory :
                   /\ \E oc \in directory[dn].objectClass : EqualFold(oc, GroupObjectClass)
                   /\ directory[dn].cn = cn}
    IN IF all = {} THEN {} ELSE {CHOOSE dn \in all : TRUE}

\* the entries findGroupDN's subtree search returns
FindGroupMatches(cn) ==
    {dn \in DOMAIN directory :
        /\ \E oc \in directory[dn].objectClass : EqualFold(oc, GroupObjectClass)
        /\ directory[dn].cn = cn}

\* a comparison of the object classes that does not fold the case
IsGroupExact(entry) ==
    \E oc \in entry.objectClass : oc = "group" \/ oc = "groupOfNames"

\* the loop over objectClasses of fetchMembersRecursive
IsGroup(entry) ==
    \E oc \in entry.objectClass : EqualFold(oc, "group") \/ EqualFold(oc, "groupOfNames")

\* a resolver that never finds a group in processedGroups
NeverProcessed(groupDN) == FALSE

\* a loop prevention that never takes the group the call started from as
\* processed
ProcessedNested(groupDN) ==
    groupDN \in processedGroups /\ groupDN # stack[1].groupDN

\* the loop prevention of fetchMembersRecursive: processedGroups[groupDN]
Processed(groupDN) == groupDN \in processedGroups

Frame(dn) == [groupDN |-> dn, at |-> "entry", memberDNs |-> {}]

\* The recursion is as deep as the stack allows.  With the loop prevention a
\* group is entered once, so the calls in progress are never more than the
\* groups of the directory and one.
MaxDepth == Cardinality({dn \in DOMAIN directory : IsGroup(directory[dn])}) + 1

\* FetchGroupMembers returns (nil, err)
FetchFails(err) ==
    /\ fetched' = [list |-> <<>>, err |-> err]
    /\ rpc' = "done"
    /\ stack' = <<>>

\* the call on top of the stack returns err ("" is nil): to its caller, which
\* logs and drops the error of a nested group, or to FetchGroupMembers
Return(err) ==
    IF Len(stack) > 1
    THEN /\ stack' = SubSeq(stack, 1, Len(stack) - 1)
         /\ UNCHANGED <<rpc, fetched>>
    ELSE IF err # ""
    THEN FetchFails(err)
    ELSE /\ \E list \in Perms(userIDs) : fetched' = [list |-> list, err |-> ""]
         /\ rpc' = "done"
         /\ stack' = <<>>

FindGroupDN ==
    /\ rpc = "find"
    /\ UNCHANGED <<envVars, passVars, groupCN>>
    /\ \/ /\ faults < MaxFaults
          /\ faults' = faults + 1
          /\ FetchFails("DirectoryError")
          /\ UNCHANGED <<userIDs, processedGroups>>
       \/ /\ UNCHANGED faults
          /\ LET found == FindGroupMatches(groupCN)
             IN IF found = {}
                THEN FetchFails("NotFound") /\ UNCHANGED <<userIDs, processedGroups>>
                ELSE IF Cardinality(found) > 1
                THEN FetchFails("AmbiguousMatch") /\ UNCHANGED <<userIDs, processedGroups>>
                ELSE /\ stack' = <<Frame(CHOOSE dn \in found : TRUE)>>
                     /\ userIDs' = {}
                     /\ processedGroups' = {}
                     /\ rpc' = "run"
                     /\ UNCHANGED fetched

\* fetchMembersRecursive up to its loop: the loop prevention and the search
EnterGroup ==
    /\ rpc = "run"
    /\ stack # <<>>
    /\ stack[Len(stack)].at = "entry"
    /\ UNCHANGED <<envVars, passVars, groupCN, userIDs>>
    /\ LET dn == stack[Len(stack)].groupDN
       IN IF Processed(dn)
          THEN Return("") /\ UNCHANGED <<processedGroups, faults>>
          ELSE /\ processedGroups' = processedGroups \cup {dn}
               /\ \/ /\ faults < MaxFaults
                     /\ faults' = faults + 1
                     /\ Return("DirectoryError")
                  \/ /\ UNCHANGED faults
                     /\ IF dn \notin DOMAIN directory
                        THEN Return("DirectoryError")
                        ELSE IF directory[dn].member = {}
                        THEN Return("")
                        ELSE /\ stack' = [stack EXCEPT ![Len(stack)] =
                                    [@ EXCEPT !.at = "loop",
                                              !.memberDNs = directory[dn].member]]
                             /\ UNCHANGED <<rpc, fetched>>

\* one iteration of the loop over memberDNs that leaves the loop at a member
\* without the identifying attribute
ProcessMemberBreak ==
    /\ rpc = "run"
    /\ stack # <<>>
    /\ stack[Len(stack)].at = "loop"
    /\ UNCHANGED <<envVars, passVars, groupCN, processedGroups, rpc, fetched>>
    /\ \E memberDN \in stack[Len(stack)].memberDNs :
        LET rest == [stack EXCEPT ![Len(stack)].memberDNs = @ \ {memberDN}]
        IN \/ /\ memberDN # ""
              /\ faults < MaxFaults
              /\ faults' = faults + 1
              /\ stack' = rest
              /\ UNCHANGED userIDs
           \/ /\ UNCHANGED faults
              /\ IF memberDN = "" \/ memberDN \notin DOMAIN directory
                 THEN stack' = rest /\ UNCHANGED userIDs
                 ELSE IF IsGroup(directory[memberDN])
                 THEN /\ Len(stack) < MaxDepth
                      /\ stack' = Append(rest, Frame(memberDN))
                      /\ UNCHANGED userIDs
                 ELSE IF directory[memberDN].uid = NoUid
                 THEN /\ stack' = [stack EXCEPT ![Len(stack)].memberDNs = {}]
                      /\ UNCHANGED userIDs
                 ELSE /\ stack' = rest
                      /\ userIDs' = userIDs \cup {directory[memberDN].uid}

\* one iteration of the loop over memberDNs
ProcessMember ==
    /\ rpc = "run"
    /\ stack # <<>>
    /\ stack[Len(stack)].at = "loop"
    /\ UNCHANGED <<envVars, passVars, groupCN, processedGroups, rpc, fetched>>
    /\ \E memberDN \in stack[Len(stack)].memberDNs :
        LET rest == [stack EXCEPT ![Len(stack)].memberDNs = @ \ {memberDN}]
        IN \/ /\ memberDN # ""
              /\ faults < MaxFaults
              /\ faults' = faults + 1
              /\ stack' = rest
              /\ UNCHANGED userIDs
           \/ /\ UNCHANGED faults
              /\ IF memberDN = "" \/ memberDN \notin DOMAIN directory
                 THEN stack' = rest /\ UNCHANGED userIDs
                 ELSE IF IsGroup(directory[memberDN])
                 THEN /\ Len(stack) < MaxDepth
                      /\ stack' = Append(rest, Frame(memberDN))
                      /\ UNCHANGED userIDs
                 ELSE IF directory[memberDN].uid = NoUid
                 THEN stack' = rest /\ UNCHANGED userIDs
                 ELSE /\ stack' = rest
                      /\ userIDs' = userIDs \cup {directory[memberDN].uid}

\* the loop is over: return nil
ReturnGroup ==
    /\ rpc = "run"
    /\ stack # <<>>
    /\ stack[Len(stack)].at = "loop"
    /\ stack[Len(stack)].memberDNs = {}
    /\ Return("")
    /\ UNCHANGED <<envVars, passVars, groupCN, userIDs, processedGroups, faults>>

ResolverStep == FindGroupDN \/ EnterGroup \/ ProcessMember \/ ReturnGroup

(***************************************************************************)
(* cmd/sync/main.go and the PostgreSQL client.                             *)
(***************************************************************************)
EmptyMap == [k \in {} |-> {}]
Put(m, k, v) == [x \in DOMAIN m \cup {k} |-> IF x = k THEN v ELSE m[x]]

\* a filter that matches the way the catalog queries do
AllowLike(member, prefixes) == MatchesWhere(member, prefixes)

\* a filter that lets every member through
AllowAll(member, prefixes) == TRUE

\* main's loop over cfg.SyncPolicy.AllowedUserPrefixes: isValid
Allow(member, prefixes) ==
    \E i \in 1..Len(prefixes) : HasPrefix(member, prefixes[i])

\* a difference that grants to every LDAP member
GrantAll(ldapMembers, pgMembers) == ldapMembers

\* SyncRoleMembership, step 2: the two loops that calculate the difference
UsersToGrant(ldapMembers, pgMembers) == {u \in ldapMembers : u \notin pgMembers}
UsersToRevoke(ldapMembers, pgMembers) == {u \in pgMembers : u \notin ldapMembers}

\* a deprovisioning that drops every managed user
DropAllManaged(pgUsers, ldapUsers) == pgUsers

\* DeprovisionUsers: the managed users that no longer exist in LDAP
UsersToDrop(pgUsers, ldapUsers) == {u \in pgUsers : u \notin ldapUsers}

NoTx == [open |-> FALSE, aborted |-> FALSE, cat |-> Catalog({}, {})]
BeginTx == [open |-> TRUE, aborted |-> FALSE, cat |-> cat[db]]
Stmt(phase, op, role, name) ==
    [db |-> db, phase |-> phase, op |-> op, role |-> role, name |-> name]

\* an error that is logged, after which main goes on with phase 2
LogAndContinue(what) ==
    /\ pc' = "sync"
    /\ errs' = errs \cup {<<db, what>>}
    /\ tx' = NoTx

\* log.Fatalf: the process exits; an open transaction is never committed
Fatal(what) ==
    /\ pc' = "exited"
    /\ errs' = errs \cup {<<db, what>>}
    /\ tx' = NoTx

\* a call that can fail without the model's state deciding it
Fault == faults < MaxFaults /\ faults' = faults + 1

\* ldapClient.Connect
LdapConnect ==
    /\ pc = "ldapConnect"
    /\ \/ Fault /\ Fatal("ldap connect") /\ UNCHANGED db
       \/ /\ pc' = "dbConnect"
          /\ db' = 1
          /\ UNCHANGED <<faults, errs, tx>>
    /\ UNCHANGED <<envVars, resolverVars, roleIdx, allValidLdapUsers, allRoleMappings,
                   rolesLeft, pgRole, cat, pools, usersToCreate, pgManagedMembers,
                   usersToGrant, usersToRevoke, usersToDrop, issued, resolved>>

\* pgClient.Connect, the two maps of phase 1 and the first FetchGroupMembers
PgConnect ==
    /\ pc = "dbConnect"
    /\ \/ /\ Fault /\ Fatal("connect")
          \* pgxpool.New fails, or pool.Ping fails and the pool it was called
          \* on is left open
          /\ \/ UNCHANGED pools
             \/ pools' = pools \cup {db}
          /\ UNCHANGED <<resolverVars, roleIdx, allValidLdapUsers, allRoleMappings,
                         resolved, usersToCreate, issued>>
       \/ /\ pools' = pools \cup {db}
          /\ issued' = {}
          /\ allValidLdapUsers' = {}
          /\ allRoleMappings' = EmptyMap
          /\ resolved' = EmptyMap
          /\ roleIdx' = 1
          /\ IF Len(cfg.Roles) = 0
             THEN pc' = "provision" /\ usersToCreate' = {} /\ UNCHANGED <<rpc, groupCN>>
             ELSE /\ pc' = "fetch"
                  /\ rpc' = "find"
                  /\ groupCN' = cfg.Roles[1].LDAPGroupCN
                  /\ UNCHANGED usersToCreate
          /\ UNCHANGED <<faults, errs, tx, stack, userIDs, processedGroups, fetched>>
    /\ UNCHANGED <<envVars, db, rolesLeft, pgRole, cat, pgManagedMembers,
                   usersToGrant, usersToRevoke, usersToDrop>>

\* main after FetchGroupMembers returned: the error or the filter, then the
\* next role mapping or, after the last, the slice of users to create
FetchDone ==
    /\ pc = "fetch"
    /\ rpc = "done"
    /\ LET roleMap == cfg.Roles[roleIdx]
           filteredMembers ==
               {m \in Range(fetched.list) : Allow(m, cfg.AllowedUserPrefixes)}
       IN /\ IF fetched.err # ""
             THEN /\ errs' = errs \cup {<<db, fetched.err>>}
                  /\ UNCHANGED <<allValidLdapUsers, allRoleMappings, resolved>>
             ELSE /\ allValidLdapUsers' = allValidLdapUsers \cup filteredMembers
                  /\ allRoleMappings' =
                         Put(allRoleMappings, roleMap.PostgresRole, filteredMembers)
                  /\ resolved' = Put(resolved, roleIdx, filteredMembers)
                  /\ UNCHANGED errs
          /\ IF roleIdx < Len(cfg.Roles)
             THEN /\ roleIdx' = roleIdx + 1
                  /\ rpc' = "find"
                  /\ groupCN' = cfg.Roles[roleIdx + 1].LDAPGroupCN
                  /\ UNCHANGED <<pc, usersToCreate>>
             ELSE /\ pc' = "provision"
                  /\ rpc' = "idle"
                  /\ usersToCreate' = allValidLdapUsers'
                  /\ UNCHANGED <<roleIdx, groupCN>>
    \* members and err are the iteration's locals; the resolver's map and
    \* slice were the call's
    /\ fetched' = [list |-> <<>>, err |-> ""]
    /\ userIDs' = {}
    /\ processedGroups' = {}
    /\ UNCHANGED <<envVars, faults, stack, db, rolesLeft, pgRole, cat, tx, pools,
                   pgManagedMembers, usersToGrant, usersToRevoke, usersToDrop, issued>>

\* EnsureUsersExist: c.Pool.Begin
ProvisionBegin ==
    /\ pc = "provision"
    /\ \/ Fault /\ Fatal("provision")
       \/ /\ tx' = BeginTx
          /\ pc' = "provisionLoop"
          /\ UNCHANGED <<faults, errs>>
    /\ UNCHANGED <<envVars, resolverVars, db, roleIdx, allValidLdapUsers,
                   allRoleMappings, rolesLeft, pgRole, cat, pools, usersToCreate,
                   pgManagedMembers, usersToGrant, usersToRevoke, usersToDrop, issued,
                   resolved>>

\* one iteration of the loop over users with every statement sent outside
\* the transaction, so that it takes effect at once
ProvisionUserAutocommit ==
    /\ pc = "provisionLoop"
    /\ \E user \in usersToCreate :
        LET create == Stmt(1, "CREATE", <<>>, user)
            grant == Stmt(1, "GRANT", DefaultPostgresGroup, user)
            created == CreateRole(cat[db], user)
        IN \/ /\ Fault /\ Fatal("provision")
              /\ UNCHANGED <<issued, usersToCreate, cat>>
           \/ /\ RoleExists(cat[db], user)
              /\ usersToCreate' = usersToCreate \ {user}
              /\ UNCHANGED <<faults, pc, errs, tx, issued, cat>>
           \/ /\ ~RoleExists(cat[db], user)
              /\ Fault /\ Fatal("provision")
              /\ issued' = issued \cup {create}
              /\ UNCHANGED <<usersToCreate, cat>>
           \/ /\ ~RoleExists(cat[db], user)
              /\ \/ Fault
                 \/ ~CanGrant(created, DefaultPostgresGroup, user) /\ UNCHANGED faults
              /\ Fatal("provision")
              /\ cat' = [cat EXCEPT ![db] = created]
              /\ issued' = issued \cup {create, grant}
              /\ UNCHANGED usersToCreate
           \/ /\ ~RoleExists(cat[db], user)
              /\ CanGrant(created, DefaultPostgresGroup, user)
              /\ cat' = [cat EXCEPT ![db] = GrantRole(created, DefaultPostgresGroup, user)]
              /\ tx' = [tx EXCEPT !.cat = cat'[db]]
              /\ issued' = issued \cup {create, grant}
              /\ usersToCreate' = usersToCreate \ {user}
              /\ UNCHANGED <<faults, pc, errs>>
    /\ UNCHANGED <<envVars, resolverVars, db, roleIdx, allValidLdapUsers,
                   allRoleMappings, rolesLeft, pgRole, pools, pgManagedMembers,
                   usersToGrant, usersToRevoke, usersToDrop, resolved>>

\* EnsureUsersExist: one iteration of the loop over users
ProvisionUser ==
    /\ pc = "provisionLoop"
    /\ \E user \in usersToCreate :
        LET create == Stmt(1, "CREATE", <<>>, user)
            grant == Stmt(1, "GRANT", DefaultPostgresGroup, user)
            created == CreateRole(tx.cat, user)
        IN \/ \* the existence check fails
              Fault /\ Fatal("provision") /\ UNCHANGED <<issued, usersToCreate>>
           \/ /\ RoleExists(tx.cat, user)
              /\ usersToCreate' = usersToCreate \ {user}
              /\ UNCHANGED <<faults, pc, errs, tx, issued>>
           \/ \* CREATE ROLE fails
              /\ ~RoleExists(tx.cat, user)
              /\ Fault /\ Fatal("provision")
              /\ issued' = issued \cup {create}
              /\ UNCHANGED usersToCreate
           \/ \* GRANT fails
              /\ ~RoleExists(tx.cat, user)
              /\ \/ Fault
                 \/ ~CanGrant(created, DefaultPostgresGroup, user) /\ UNCHANGED faults
              /\ Fatal("provision")
              /\ issued' = issued \cup {create, grant}
              /\ UNCHANGED usersToCreate
           \/ /\ ~RoleExists(tx.cat, user)
              /\ CanGrant(created, DefaultPostgresGroup, user)
              /\ tx' = [tx EXCEPT !.cat = GrantRole(created, DefaultPostgresGroup, user)]
              /\ issued' = issued \cup {create, grant}
              /\ usersToCreate' = usersToCreate \ {user}
              /\ UNCHANGED <<faults, pc, errs>>
    /\ UNCHANGED <<envVars, resolverVars, db, roleIdx, allValidLdapUsers,
                   allRoleMappings, rolesLeft, pgRole, cat, pools, pgManagedMembers,
                   usersToGrant, usersToRevoke, usersToDrop, resolved>>

\* phase 1 ends without a commit of its own: its statements stay in a
\* transaction that is never made durable
ProvisionCommitDeferred ==
    /\ pc = "provisionLoop"
    /\ usersToCreate = {}
    /\ \/ Fault /\ Fatal("provision") /\ UNCHANGED <<cat, rolesLeft>>
       \/ /\ tx' = NoTx
          /\ pc' = "sync"
          /\ rolesLeft' = DOMAIN allRoleMappings
          /\ UNCHANGED <<faults, errs, cat>>
    /\ UNCHANGED <<envVars, resolverVars, db, roleIdx, allValidLdapUsers,
                   allRoleMappings, pgRole, pools, usersToCreate, pgManagedMembers,
                   usersToGrant, usersToRevoke, usersToDrop, issued, resolved>>

\* EnsureUsersExist: tx.Commit, and main's way into phase 2
ProvisionCommit ==
    /\ pc = "provisionLoop"
    /\ usersToCreate = {}
    /\ \/ Fault /\ Fatal("provision") /\ UNCHANGED <<cat, rolesLeft>>
       \/ /\ cat' = [cat EXCEPT ![db] = tx.cat]
          /\ tx' = NoTx
          /\ pc' = "sync"
          /\ rolesLeft' = DOMAIN allRoleMappings
          /\ UNCHANGED <<faults, errs>>
    /\ UNCHANGED <<envVars, resolverVars, db, roleIdx, allValidLdapUsers,
                   allRoleMappings, pgRole, pools, usersToCreate, pgManagedMembers,
                   usersToGrant, usersToRevoke, usersToDrop, issued, resolved>>

\* main's loop over allRoleMappings, and SyncRoleMembership up to c.Pool.Begin
SyncBegin ==
    /\ pc = "sync"
    /\ \E role \in rolesLeft :
        /\ pgRole' = role
        /\ IF Len(cfg.AllowedUserPrefixes) = 0
           THEN /\ rolesLeft' = rolesLeft \ {role}
                /\ UNCHANGED <<faults, pc, errs, tx>>
           ELSE /\ UNCHANGED rolesLeft
                /\ \/ Fault /\ Fatal("sync")
                   \/ /\ tx' = BeginTx
                      /\ pc' = "syncQuery"
                      /\ UNCHANGED <<faults, errs>>
    /\ UNCHANGED <<envVars, resolverVars, db, roleIdx, allValidLdapUsers,
                   allRoleMappings, cat, pools, usersToCreate, pgManagedMembers,
                   usersToGrant, usersToRevoke, usersToDrop, issued, resolved>>

\* SyncRoleMembership, steps 1 and 2: the query and the difference
SyncQuery ==
    /\ pc = "syncQuery"
    /\ \/ /\ Fault /\ Fatal("sync")
          /\ UNCHANGED <<pgManagedMembers, usersToGrant, usersToRevoke>>
       \/ LET rows == ManagedMembers(tx.cat, pgRole, cfg.AllowedUserPrefixes)
          IN /\ pgManagedMembers' = rows
             /\ usersToGrant' = UsersToGrant(allRoleMappings[pgRole], rows)
             /\ usersToRevoke' = UsersToRevoke(allRoleMappings[pgRole], rows)
             /\ pc' = "syncApply"
             /\ UNCHANGED <<faults, errs, tx>>
    /\ UNCHANGED <<envVars, resolverVars, db, roleIdx, allValidLdapUsers,
                   allRoleMappings, rolesLeft, pgRole, cat, pools, usersToCreate,
                   usersToDrop, issued, resolved>>

\* SyncRoleMembership, step 3: one GRANT
SyncGrant ==
    /\ pc = "syncApply"
    /\ \E user \in usersToGrant :
        /\ issued' = issued \cup {Stmt(2, "GRANT", pgRole, user)}
        /\ \/ /\ \/ Fault
                 \/ ~CanGrant(tx.cat, pgRole, user) /\ UNCHANGED faults
              /\ Fatal("sync")
              /\ UNCHANGED usersToGrant
           \/ /\ CanGrant(tx.cat, pgRole, user)
              /\ tx' = [tx EXCEPT !.cat = GrantRole(@, pgRole, user)]
              /\ usersToGrant' = usersToGrant \ {user}
              /\ UNCHANGED <<faults, pc, errs>>
    /\ UNCHANGED <<envVars, resolverVars, db, roleIdx, allValidLdapUsers,
                   allRoleMappings, rolesLeft, pgRole, cat, pools, usersToCreate,
                   pgManagedMembers, usersToRevoke, usersToDrop, resolved>>

\* SyncRoleMembership, step 3: one REVOKE, after the grants
SyncRevoke ==
    /\ pc = "syncApply"
    /\ usersToGrant = {}
    /\ \E user \in usersToRevoke :
        /\ issued' = issued \cup {Stmt(2, "REVOKE", pgRole, user)}
        /\ \/ /\ Fault /\ Fatal("sync")
              /\ UNCHANGED usersToRevoke
           \/ /\ tx' = [tx EXCEPT !.cat = RevokeRole(@, pgRole, user)]
              /\ usersToRevoke' = usersToRevoke \ {user}
              /\ UNCHANGED <<faults, pc, errs>>
    /\ UNCHANGED <<envVars, resolverVars, db, roleIdx, allValidLdapUsers,
                   allRoleMappings, rolesLeft, pgRole, cat, pools, usersToCreate,
                   pgManagedMembers, usersToGrant, usersToDrop, resolved>>

\* the commit of a role's sync that leaves the transaction open
SyncCommitOpen ==
    /\ pc = "syncApply"
    /\ usersToGrant = {}
    /\ usersToRevoke = {}
    /\ \/ Fault /\ Fatal("sync") /\ UNCHANGED <<cat, rolesLeft>>
       \/ /\ cat' = [cat EXCEPT ![db] = tx.cat]
          /\ pc' = "sync"
          /\ rolesLeft' = rolesLeft \ {pgRole}
          /\ UNCHANGED <<faults, errs, tx>>
    /\ UNCHANGED <<envVars, resolverVars, db, roleIdx, allValidLdapUsers,
                   allRoleMappings, pgRole, pools, usersToCreate, pgManagedMembers,
                   usersToGrant, usersToRevoke, usersToDrop, issued, resolved>>

\* SyncRoleMembership: tx.Commit
SyncCommit ==
    /\ pc = "syncApply"
    /\ usersToGrant = {}
    /\ usersToRevoke = {}
    /\ \/ Fault /\ Fatal("sync") /\ UNCHANGED <<cat, rolesLeft>>
       \/ /\ cat' = [cat EXCEPT ![db] = tx.cat]
          /\ tx' = NoTx
          /\ pc' = "sync"
          /\ rolesLeft' = rolesLeft \ {pgRole}
          /\ UNCHANGED <<faults, errs>>
    /\ UNCHANGED <<envVars, resolverVars, db, roleIdx, allValidLdapUsers,
                   allRoleMappings, pgRole, pools, usersToCreate, pgManagedMembers,
                   usersToGrant, usersToRevoke, usersToDrop, issued, resolved>>

\* DeprovisionUsers called without waiting for the end of the loop of phase 2
DeprovisionEarly ==
    /\ pc = "sync"
    /\ IF Len(cfg.AllowedUserPrefixes) = 0
       THEN pc' = "close" /\ UNCHANGED <<faults, errs, tx>>
       ELSE \/ Fault /\ Fatal("deprovision")
            \/ /\ tx' = BeginTx
               /\ pc' = "deprovisionQuery"
               /\ UNCHANGED <<faults, errs>>
    /\ UNCHANGED <<envVars, resolverVars, db, roleIdx, allValidLdapUsers,
                   allRoleMappings, rolesLeft, pgRole, cat, pools, usersToCreate,
                   pgManagedMembers, usersToGrant, usersToRevoke, usersToDrop, issued,
                   resolved>>

\* phase 2 is over; DeprovisionUsers up to c.Pool.Begin
DeprovisionBegin ==
    /\ pc = "sync"
    /\ rolesLeft = {}
    /\ IF Len(cfg.AllowedUserPrefixes) = 0
       THEN pc' = "close" /\ UNCHANGED <<faults, errs, tx>>
       ELSE \/ Fault /\ Fatal("deprovision")
            \/ /\ tx' = BeginTx
               /\ pc' = "deprovisionQuery"
               /\ UNCHANGED <<faults, errs>>
    /\ UNCHANGED <<envVars, resolverVars, db, roleIdx, allValidLdapUsers,
                   allRoleMappings, rolesLeft, pgRole, cat, pools, usersToCreate,
                   pgManagedMembers, usersToGrant, usersToRevoke, usersToDrop, issued,
                   resolved>>

\* DeprovisionUsers: the query and the users to drop
DeprovisionQuery ==
    /\ pc = "deprovisionQuery"
    /\ \/ /\ Fault /\ Fatal("deprovision")
          /\ UNCHANGED <<pgManagedMembers, usersToDrop>>
       \/ LET rows == ManagedMembers(tx.cat, DefaultPostgresGroup,
                                     cfg.AllowedUserPrefixes)
          IN /\ pgManagedMembers' = rows
             /\ usersToDrop' = UsersToDrop(rows, allValidLdapUsers)
             /\ pc' = "deprovisionDrop"
             /\ UNCHANGED <<faults, errs, tx>>
    /\ UNCHANGED <<envVars, resolverVars, db, roleIdx, allValidLdapUsers,
                   allRoleMappings, rolesLeft, pgRole, cat, pools, usersToCreate,
                   usersToGrant, usersToRevoke, issued, resolved>>

\* DeprovisionUsers: one DROP ROLE; its failure is logged and the loop goes
\* on.  The server fails every statement of a transaction after the first
\* failed one.
DeprovisionDrop ==
    /\ pc = "deprovisionDrop"
    /\ \E user \in usersToDrop :
        /\ issued' = issued \cup {Stmt(3, "DROP", <<>>, user)}
        /\ usersToDrop' = usersToDrop \ {user}
        /\ \/ /\ tx.aborted
              /\ errs' = errs \cup {<<db, "drop", user>>}
              /\ UNCHANGED <<faults, tx>>
           \/ /\ ~tx.aborted
              /\ Fault
              /\ tx' = [tx EXCEPT !.aborted = TRUE]
              /\ errs' = errs \cup {<<db, "drop", user>>}
           \/ /\ ~tx.aborted
              /\ tx' = [tx EXCEPT !.cat = DropRole(@, user)]
              /\ UNCHANGED <<faults, errs>>
    /\ UNCHANGED <<envVars, resolverVars, pc, db, roleIdx, allValidLdapUsers,
                   allRoleMappings, rolesLeft, pgRole, cat, pools, usersToCreate,
                   pgManagedMembers, usersToGrant, usersToRevoke, resolved>>

\* DeprovisionUsers: tx.Commit.  The commit of a transaction with a failed
\* statement rolls it back and returns an error.
DeprovisionCommit ==
    /\ pc = "deprovisionDrop"
    /\ usersToDrop = {}
    /\ \/ Fault /\ Fatal("deprovision") /\ UNCHANGED cat
       \/ /\ tx.aborted
          /\ Fatal("deprovision")
          /\ UNCHANGED <<faults, cat>>
       \/ /\ ~tx.aborted
          /\ cat' = [cat EXCEPT ![db] = tx.cat]
          /\ tx' = NoTx
          /\ pc' = "close"
          /\ UNCHANGED <<faults, errs>>
    /\ UNCHANGED <<envVars, resolverVars, db, roleIdx, allValidLdapUsers,
                   allRoleMappings, rolesLeft, pgRole, pools, usersToCreate,
                   pgManagedMembers, usersToGrant, usersToRevoke, usersToDrop, issued,
                   resolved>>

\* pgClient.Close and the next database; the iteration's locals are gone
PgClose ==
    /\ pc = "close"
    /\ pools' = pools \ {db}
    /\ IF db < NumDatabases
       THEN db' = db + 1 /\ pc' = "dbConnect"
       ELSE pc' = "finished" /\ UNCHANGED db
    /\ roleIdx' = 1
    /\ allValidLdapUsers' = {}
    /\ allRoleMappings' = EmptyMap
    /\ pgRole' = <<>>
    /\ pgManagedMembers' = {}
    /\ UNCHANGED <<envVars, faults, resolverVars, rolesLeft, cat, tx, usersToCreate,
                   usersToGrant, usersToRevoke, usersToDrop, histVars>>

\* main returns: the deferred ldapClient.Close
MainReturn ==
    /\ pc = "finished"
    /\ pc' = "done"
    /\ UNCHANGED <<envVars, faults, resolverVars, db, roleIdx, allValidLdapUsers,
                   allRoleMappings, rolesLeft, pgRole, pgVars, histVars>>

Idle ==
    /\ faults = 0
    /\ stack = <<>>
    /\ userIDs = {}
    /\ processedGroups = {}
    /\ fetched = [list |-> <<>>, err |-> ""]
    /\ db = 1
    /\ roleIdx = 1
    /\ allValidLdapUsers = {}
    /\ allRoleMappings = EmptyMap
    /\ rolesLeft = {}
    /\ pgRole = <<>>
    /\ cat = cat0
    /\ tx = NoTx
    /\ pools = {}
    /\ usersToCreate = {}
    /\ pgManagedMembers = {}
    /\ usersToGrant = {}
    /\ usersToRevoke = {}
    /\ usersToDrop = {}
    /\ issued = {}
    /\ resolved = EmptyMap
    /\ errs = {}

Init ==
    /\ directory \in PassDirectories
    /\ cfg \in [AllowedUserPrefixes : PrefixLists, Roles : RoleConfigs]
    /\ \E c \in Catalogs : cat0 = [d \in 1..NumDatabases |-> c]
    /\ Idle
    /\ pc = "ldapConnect"
    /\ rpc = "idle"
    /\ groupCN = ""

Next ==
    \/ LdapConnect
    \/ PgConnect
    \/ FindGroupDN
    \/ EnterGroup
    \/ ProcessMember
    \/ ReturnGroup
    \/ FetchDone
    \/ ProvisionBegin
    \/ ProvisionUser
    \/ ProvisionCommit
    \/ SyncBegin
    \/ SyncQuery
    \/ SyncGrant
    \/ SyncRevoke
    \/ SyncCommit
    \/ DeprovisionBegin
    \/ DeprovisionQuery
    \/ DeprovisionDrop
    \/ DeprovisionCommit
    \/ PgClose
    \/ MainReturn

Spec == Init /\ [][Next]_vars

(***************************************************************************)
(* The resolver alone, on every directory of the bounds.                   *)
(***************************************************************************)
InitResolve ==
    /\ directory \in ResolveDirectories
    /\ groupCN \in {"top", "dup", "none"}
    /\ groupCN # "top" => directory = DirectoryOf({})
    /\ cfg = [AllowedUserPrefixes |-> <<>>, Roles |-> <<>>]
    /\ cat0 = [d \in 1..NumDatabases |-> Catalog(GroupRoles, {})]
    /\ Idle
    /\ pc = "resolver"
    /\ rpc = "find"

SpecResolve == InitResolve /\ [][ResolverStep]_vars
FairSpecResolve == SpecResolve /\ WF_vars(ResolverStep)


(***************************************************************************)
(* What the directory says, computed from the member references alone.     *)
(***************************************************************************)
GroupClassNames == {"group", "Group", "groupofnames", "groupOfNames", "GROUPOFNAMES"}
IsGroupEntry(dn) == directory[dn].objectClass \cap GroupClassNames # {}

\* the entries reachable from the entries of S through member references
RECURSIVE ReachableFrom(_)
ReachableFrom(S) ==
    LET further == S \cup UNION {directory[dn].member \cap DOMAIN directory :
                                    dn \in {x \in S : IsGroupEntry(x)}}
    IN IF further = S THEN S ELSE ReachableFrom(further)

\* the identifying values of the non-group entries under the group named cn
LeafIds(cn) ==
    LET roots == {dn \in DOMAIN directory : IsGroupEntry(dn) /\ directory[dn].cn = cn}
    IN {directory[dn].uid :
           dn \in {x \in ReachableFrom(roots) :
                      ~IsGroupEntry(x) /\ directory[x].uid # NoUid}}

\* the statements of one kind sent in a phase for a role
Named(phase, op, role) ==
    {s.name : s \in {x \in issued : x.phase = phase /\ x.op = op /\ x.role = role}}

Prefixes == cfg.AllowedUserPrefixes
IsMember(c, role, name) == name \in c.roles /\ <<role, name>> \in c.members

\* a DROP ROLE sent to database db failed
DropFailed == \E e \in errs : e[1] = db /\ e[2] = "drop"

\* the pass over database db is over and no call of it failed
PassCompleted ==
    /\ pc = "close"
    /\ faults = 0
    /\ \A e \in errs : e[1] # db

(***************************************************************************)
(* Properties.                                                             *)
(***************************************************************************)
\* C1: an account that a run removes from a database's catalog starts with
\* one of the allowed prefixes: deprovisioning never drops an account that
\* starts with none of them, whatever the prefixes and its memberships are.
C1_DropsOnlyPrefixed ==
    \A d \in 1..NumDatabases :
        \A name \in cat0[d].roles \ cat[d].roles : Allow(name, Prefixes)

\* C2: with an empty list of allowed prefixes no CREATE ROLE, GRANT, REVOKE
\* or DROP ROLE is sent in any phase and no catalog changes.
C2_EmptyPrefixesNoMutation ==
    Len(Prefixes) = 0 => issued = {} /\ cat = cat0

\* C2 witness: a pass with no prefix is over, on a directory whose groups
\* resolved and a catalog that holds a member of the default role
C2_Witness ==
    /\ Len(Prefixes) = 0
    /\ pc = "close"
    /\ DOMAIN resolved = DOMAIN cfg.Roles
    /\ cat0[db].members # {}

\* C3: FetchGroupMembers returns on every directory: a group that is its own
\* member, cycles between groups and diamonds included.
C3_Terminates == <>(rpc = "done")

\* C3 witness: the call returned on a directory with a group that is its own
\* member, a cycle of two groups and the same leaf under both
C3_Witness ==
    /\ rpc = "done"
    /\ "G1" \in directory["G1"].member
    /\ "G2" \in directory["G1"].member
    /\ "G1" \in directory["G2"].member
    /\ "U1" \in directory["G2"].member
    /\ processedGroups = {"G1", "G2"}

\* C4: when no lookup fails, the list FetchGroupMembers returns holds the
\* identifying values of the non-group entries reachable from the group, and
\* each of them once.
C4_ExactLeaves ==
    (rpc = "done" /\ faults = 0 /\ fetched.err = "") =>
        /\ Range(fetched.list) = LeafIds(groupCN)
        /\ Len(fetched.list) = Cardinality(LeafIds(groupCN))

\* C4 witness: a diamond: two leaves returned, one of them under two groups
\* of different nesting depth
C4_Witness ==
    /\ rpc = "done"
    /\ faults = 0
    /\ fetched.err = ""
    /\ Len(fetched.list) = 2
    /\ "G2" \in directory["G1"].member
    /\ "U1" \in directory["G1"].member
    /\ "U1" \in directory["G2"].member
    /\ "U2" \in directory["G2"].member

\* C5: in SyncRoleMembership, with D the mapping's members and A the rows of
\* the query, the accounts granted are those of D \ A, the accounts revoked
\* those of A \ D (all of them once the loops are over), and none is both.
C5_GrantRevokeDifference ==
    pc = "syncApply" =>
        LET D == allRoleMappings[pgRole]
            A == pgManagedMembers
            granted == Named(2, "GRANT", pgRole)
            revoked == Named(2, "REVOKE", pgRole)
        IN /\ granted \cup usersToGrant = D \ A
           /\ revoked \cup usersToRevoke = A \ D
           /\ (granted \cup usersToGrant) \cap (revoked \cup usersToRevoke) = {}

\* C5 witness: both loops are over, with accounts granted, an account
\* revoked and an account of D that was in A
C5_Witness ==
    /\ pc = "syncApply"
    /\ usersToGrant = {}
    /\ usersToRevoke = {}
    /\ Named(2, "GRANT", pgRole) # {}
    /\ Named(2, "REVOKE", pgRole) # {}

\* C6: once phase 2 has committed for a role, the query and the difference of
\* SyncRoleMembership, made again on the committed catalog with the same
\* members, give no account to grant and none to revoke.
C6_SecondSyncEmpty ==
    (pc = "sync" /\ Len(Prefixes) > 0) =>
        \A role \in DOMAIN allRoleMappings \ rolesLeft :
            LET rows == ManagedMembers(cat[db], role, Prefixes)
            IN /\ UsersToGrant(allRoleMappings[role], rows) = {}
               /\ UsersToRevoke(allRoleMappings[role], rows) = {}

\* C7: after a pass without error every valid LDAP user is an account of the
\* catalog and a member of the default role, created by the pass or not.
C7_ValidUsersInDefaultGroup ==
    PassCompleted =>
        \A user \in allValidLdapUsers :
            IsMember(cat[db], DefaultPostgresGroup, user)

\* C8: after a pass without error, for every role mapping the members of its
\* PostgreSQL role that start with an allowed prefix are the members resolved
\* for the mapping.
C8_RoleMembersAreResolved ==
    PassCompleted =>
        \A i \in DOMAIN cfg.Roles :
            {u \in cat[db].roles :
                /\ IsMember(cat[db], cfg.Roles[i].PostgresRole, u)
                /\ Allow(u, Prefixes)} = resolved[i]

\* C9: after a pass in which the group of a mapping is not in the directory
\* and no DROP ROLE failed, no account that was a member of the default role,
\* starts with an allowed prefix and is under none of the groups left is in
\* the catalog.
C9_OrphansAreDropped ==
    (/\ pc = "close"
     /\ \E i \in DOMAIN cfg.Roles : FindGroupMatches(cfg.Roles[i].LDAPGroupCN) = {}
     /\ ~DropFailed) =>
        \A name \in cat0[db].roles :
            (/\ IsMember(cat0[db], DefaultPostgresGroup, name)
             /\ Allow(name, Prefixes)
             /\ \A i \in DOMAIN cfg.Roles : name \notin LeafIds(cfg.Roles[i].LDAPGroupCN))
            => name \notin cat[db].roles

\* C10: after a pass without error, an account of the default role and of the
\* roles of two mappings that is no longer under the first mapping's group
\* and still under the second's is out of the first role, in the second role
\* and the default role, and not dropped.
C10_PartialRevoke ==
    PassCompleted =>
        \A i, j \in DOMAIN cfg.Roles : \A name \in cat0[db].roles :
            LET first == cfg.Roles[i].PostgresRole
                second == cfg.Roles[j].PostgresRole
            IN (/\ first # second
                /\ Allow(name, Prefixes)
                /\ IsMember(cat0[db], DefaultPostgresGroup, name)
                /\ IsMember(cat0[db], first, name)
                /\ IsMember(cat0[db], second, name)
                /\ name \notin LeafIds(cfg.Roles[i].LDAPGroupCN)
                /\ name \in LeafIds(cfg.Roles[j].LDAPGroupCN))
               => /\ ~IsMember(cat[db], first, name)
                  /\ IsMember(cat[db], second, name)
                  /\ IsMember(cat[db], DefaultPostgresGroup, name)

\* the name starts with one of the allowed prefixes
StartsWithAllowed(name) == \E i \in DOMAIN Prefixes : HasPrefix(name, Prefixes[i])

\* C11: every account named in a CREATE ROLE or GRANT of phase 1 or phase 2
\* starts with an allowed prefix, and so does every member of a mapping's
\* member set and of the set of valid LDAP users.
C11_OnlyPrefixedProvisioned ==
    /\ \A s \in issued :
           (s.phase \in {1, 2} /\ s.op \in {"CREATE", "GRANT"}) => StartsWithAllowed(s.name)
    /\ \A user \in allValidLdapUsers : StartsWithAllowed(user)
    /\ \A role \in DOMAIN allRoleMappings :
           \A user \in allRoleMappings[role] : StartsWithAllowed(user)

\* C11 witness: the group of a mapping holds an account outside the prefixes
\* and phase 2 has granted the mapping's role
C11_Witness ==
    /\ pc = "close"
    /\ Prefixes = <<<<"n", "_">>>>
    /\ nxa \in LeafIds("two")
    /\ Named(1, "CREATE", <<>>) # {}
    /\ Named(2, "GRANT", r2) # {}

\* C12: phase 2 revokes a role only from members that start with an allowed
\* prefix: every account named in a REVOKE starts with one.
C12_RevokesOnlyPrefixed ==
    \A s \in issued : (s.phase = 2 /\ s.op = "REVOKE") => StartsWithAllowed(s.name)

\* C13: a lookup that fails during the expansion (of the named group, of a
\* member entry or of a nested group) makes FetchGroupMembers return an error
\* and no list.
C13_LookupFailureFails ==
    (rpc = "done" /\ faults > 0) => (fetched.err # "" /\ fetched.list = <<>>)

\* the entries of the group object class that carry the name cn
GroupsNamed(cn) ==
    {dn \in DOMAIN directory :
        /\ directory[dn].cn = cn
        /\ directory[dn].objectClass \cap {"groupOfNames", "GROUPOFNAMES"} # {}}

\* C14: FetchGroupMembers returns an error and no list when no group or more
\* than one group carries the name, without entering any group; the
\* expansion runs only when exactly one group carries it.
C14_OneGroupOrError ==
    /\ (rpc = "done" /\ Cardinality(GroupsNamed(groupCN)) # 1) =>
           /\ fetched.err # ""
           /\ fetched.list = <<>>
           /\ processedGroups = {}
    /\ rpc = "run" => Cardinality(GroupsNamed(groupCN)) = 1

\* C14 witness: the search itself succeeded and two groups carry the name
C14_Witness ==
    /\ rpc = "done"
    /\ faults = 0
    /\ Cardinality(GroupsNamed(groupCN)) = 2
    /\ fetched.err = "AmbiguousMatch"

\* EnsureUsersExist returned an error for database db
ProvisionFailed == pc = "exited" /\ <<db, "provision">> \in errs

\* C15: when phase 1 fails, the catalog of the database is the one the pass
\* found: none of the accounts and none of the grants the phase issued before
\* the failure are in it, and the error is reported.
C15_ProvisionAtomic ==
    ProvisionFailed =>
        /\ cat[db] = cat0[db]
        /\ \A user \in Named(1, "CREATE", <<>>) : ~RoleExists(cat[db], user)
        /\ \A user \in Named(1, "GRANT", DefaultPostgresGroup) :
               ~IsMember(cat[db], DefaultPostgresGroup, user)

\* C15 witness: one account was created and granted the default role, then
\* the phase failed on the next one
C15_Witness ==
    /\ ProvisionFailed
    /\ Named(1, "GRANT", DefaultPostgresGroup) # {}
    /\ \E user \in usersToCreate : user \notin Named(1, "GRANT", DefaultPostgresGroup)
    /\ \E user \in Named(1, "GRANT", DefaultPostgresGroup) : user \notin usersToCreate

\* C16: a DROP ROLE that fails does not block the others: phase 3 still
\* commits, and every account it sent a DROP ROLE for whose own drop did not
\* fail is gone from the catalog.
C16_DropFailureIsolated ==
    (DropFailed /\ pc \in {"close", "exited"}) =>
        /\ pc = "close"
        /\ \A user \in Named(3, "DROP", <<>>) :
               <<db, "drop", user>> \notin errs => ~RoleExists(cat[db], user)

\* the run is over: main returned or log.Fatalf ended the process
RunOver == pc \in {"exited", "done"}

\* C17: when the connection to, or the provisioning of, a database fails,
\* the run still goes on to every later database.
C17_LaterDatabasesProcessed ==
    \A e \in errs :
        (RunOver /\ e[2] \in {"connect", "provision"}) => db = NumDatabases

\* the pass over database d got as far as phase 3
DeprovisionRan(d) ==
    \/ db > d
    \/ pc \in {"deprovisionQuery", "deprovisionDrop", "close", "finished", "done"}
    \/ <<d, "deprovision">> \in errs

\* C18: when the membership sync of one role fails, every other role of the
\* database is still synced and phase 3 still runs.
C18_SyncFailureIsolated ==
    \A e \in errs :
        (RunOver /\ e[2] = "sync") =>
            /\ rolesLeft \subseteq {pgRole}
            /\ DeprovisionRan(e[1])

\* the mappings of the database whose group could not be resolved and whose
\* target role no other mapping names
FailedMappings ==
    {i \in DOMAIN cfg.Roles :
        /\ i \notin DOMAIN resolved
        /\ \A j \in DOMAIN cfg.Roles \ {i} :
               cfg.Roles[j].PostgresRole # cfg.Roles[i].PostgresRole}

\* C19: a mapping whose group could not be resolved counts as an empty
\* membership set: when phase 2 has ended, its target role has been revoked
\* from every account that starts with an allowed prefix.
C19_FailedResolutionRevokesAll ==
    pc = "deprovisionQuery" =>
        \A i \in FailedMappings :
            \A name \in cat[db].roles :
                StartsWithAllowed(name) =>
                    ~IsMember(cat[db], cfg.Roles[i].PostgresRole, name)

\* the step of the pass a position of main belongs to: Connect,
\* Resolve-All-Mappings, Provision, SyncEach, Deprovision, Disconnect
Rank(p) ==
    CASE p = "ldapConnect" -> 0
      [] p = "dbConnect" -> 1
      [] p = "fetch" -> 2
      [] p \in {"provision", "provisionLoop"} -> 3
      [] p \in {"sync", "syncQuery", "syncApply"} -> 4
      [] p \in {"deprovisionQuery", "deprovisionDrop"} -> 5
      [] p = "close" -> 6
      [] OTHER -> 7

\* C20: within a database the steps of the pass follow one another in the
\* order Connect, Resolve, Provision, SyncEach, Deprovision, Disconnect and
\* none comes back; the next database starts only after Disconnect; a grant
\* or revoke of phase 2 is sent only when phase 1 has committed every valid
\* account, and a drop of phase 3 only when no role is left to sync.
C20_StepOrder ==
    [][/\ db' = db => Rank(pc') >= Rank(pc)
       /\ db' # db => (pc = "close" /\ pc' = "dbConnect" /\ db' = db + 1)
       /\ \A s \in issued' \ issued :
              /\ s.phase = Rank(pc) - 2
              /\ s.phase = 1 => s.op \in {"CREATE", "GRANT"}
              /\ s.phase = 2 =>
                     /\ s.op \in {"GRANT", "REVOKE"}
                     /\ usersToCreate = {}
                     /\ \A user \in allValidLdapUsers : RoleExists(cat[db], user)
              /\ s.phase = 3 => (s.op = "DROP" /\ rolesLeft = {})]_vars

\* C20 witness: a pass that created an account, changed a membership and
\* dropped an account has reached Disconnect
C20_Witness ==
    /\ pc = "close"
    /\ Named(1, "CREATE", <<>>) # {}
    /\ \E s \in issued : s.phase = 2
    /\ Named(3, "DROP", <<>>) # {}

(***************************************************************************)
(* A pass over one database that runs to its end without a failing call,   *)
(* as a function of the catalog it starts from.                            *)
(***************************************************************************)
\* EnsureUsersExist: the missing users created and granted the default group
Provisioned(c, users) ==
    LET missing == {u \in users : ~RoleExists(c, u)}
    IN [roles |-> c.roles \cup missing,
        members |-> c.members \cup {<<DefaultPostgresGroup, u>> : u \in missing}]

\* the statements SyncRoleMembership sends for a role
SyncGrants(c, role, ldapMembers, prefixes) ==
    IF Len(prefixes) = 0 THEN {}
    ELSE UsersToGrant(ldapMembers, ManagedMembers(c, role, prefixes))
SyncRevokes(c, role, ldapMembers, prefixes) ==
    IF Len(prefixes) = 0 THEN {}
    ELSE UsersToRevoke(ldapMembers, ManagedMembers(c, role, prefixes))

\* main's loop of phase 2: SyncRoleMembership for every role of the map
Synced(c, mappings, prefixes) ==
    LET granted == UNION {{<<role, u>> : u \in SyncGrants(c, role, mappings[role], prefixes)} :
                             role \in DOMAIN mappings}
        revoked == UNION {{<<role, u>> : u \in SyncRevokes(c, role, mappings[role], prefixes)} :
                             role \in DOMAIN mappings}
    IN [c EXCEPT !.members = (@ \cup granted) \ revoked]

\* the accounts DeprovisionUsers drops
Drops(c, ldapUsers, prefixes) ==
    IF Len(prefixes) = 0 THEN {}
    ELSE UsersToDrop(ManagedMembers(c, DefaultPostgresGroup, prefixes), ldapUsers)

\* DeprovisionUsers: every stale user dropped
Deprovisioned(c, ldapUsers, prefixes) ==
    LET gone == Drops(c, ldapUsers, prefixes)
    IN [roles |-> c.roles \ gone,
        members |-> {m \in c.members : m[1] \notin gone /\ m[2] \notin gone}]

\* the three phases, one after the other
FullPass(c, ldapUsers, mappings, prefixes) ==
    Deprovisioned(Synced(Provisioned(c, ldapUsers), mappings, prefixes),
                  ldapUsers, prefixes)

\* the accounts and memberships a pass sends a statement for
PassStatements(c, ldapUsers, mappings, prefixes) ==
    LET c1 == Provisioned(c, ldapUsers)
        c2 == Synced(c1, mappings, prefixes)
    IN [create |-> {u \in ldapUsers : ~RoleExists(c, u)},
        grant |-> UNION {{<<role, u>> : u \in SyncGrants(c1, role, mappings[role], prefixes)} :
                            role \in DOMAIN mappings},
        revoke |-> UNION {{<<role, u>> : u \in SyncRevokes(c1, role, mappings[role], prefixes)} :
                             role \in DOMAIN mappings},
        drop |-> Drops(c2, ldapUsers, prefixes)]
NoStatements == [create |-> {}, grant |-> {}, revoke |-> {}, drop |-> {}]

\* the pass over database db has resolved its groups and no call has failed:
\* the point at which the process may be killed
Interruptible ==
    /\ faults = 0
    /\ pc \in {"provision", "provisionLoop", "sync", "syncQuery", "syncApply",
               "deprovisionQuery", "deprovisionDrop", "close"}

\* the pure pass and the steps of main agree on the catalog of a pass that
\* ran to its end
PassAgrees ==
    (pc = "close" /\ faults = 0) =>
        cat[db] = FullPass(cat0[db], allValidLdapUsers, allRoleMappings, Prefixes)

\* C21: a pass killed at any point and then run again from the start on the
\* same directory ends with the catalog an uninterrupted pass gives from the
\* original catalog; a second pass after a complete one sends no statement.
C21_CrashAndRerun ==
    /\ Interruptible =>
           FullPass(cat[db], allValidLdapUsers, allRoleMappings, Prefixes)
               = FullPass(cat0[db], allValidLdapUsers, allRoleMappings, Prefixes)
    /\ (pc = "close" /\ faults = 0) =>
           PassStatements(cat[db], allValidLdapUsers, allRoleMappings, Prefixes)
               = NoStatements

\* phase 2 or phase 3 of database db returned an error
LaterPhaseFailed ==
    /\ pc = "exited"
    /\ <<db, "sync">> \in errs \/ <<db, "deprovision">> \in errs

\* the roles of database db whose membership sync has committed
SyncedRoles == DOMAIN allRoleMappings \ rolesLeft

\* C22: when phase 2 or phase 3 fails, every account phase 1 created is in
\* the catalog with the default role, and every grant and revoke of a role
\* whose sync had committed is still in effect.
C22_PhasesIndependent ==
    LaterPhaseFailed =>
        /\ \A user \in Named(1, "CREATE", <<>>) :
               IsMember(cat[db], DefaultPostgresGroup, user)
        /\ \A role \in SyncedRoles :
               /\ \A user \in Named(2, "GRANT", role) : IsMember(cat[db], role, user)
               /\ \A user \in Named(2, "REVOKE", role) : ~IsMember(cat[db], role, user)

\* C22 witness: phase 1 created an account, one role was synced with a
\* grant, and the sync of the next role failed
C22_Witness ==
    /\ pc = "exited"
    /\ <<db, "sync">> \in errs
    /\ Named(1, "CREATE", <<>>) # {}
    /\ \E role \in SyncedRoles : Named(2, "GRANT", role) # {}

\* C23: the connection pool opened for a database is closed when the
\* processing of the database ends, on every path: none is open while main
\* connects to the next database, nor when the run is over.
C23_PoolsReleased ==
    (RunOver \/ pc \in {"dbConnect", "finished"}) => pools = {}

\* the positions of main inside EnsureUsersExist, SyncRoleMembership and
\* DeprovisionUsers between Begin and Commit
TxPositions ==
    {"provisionLoop", "syncQuery", "syncApply", "deprovisionQuery", "deprovisionDrop"}

\* the unit of work main is in: the database, the phase and, in phase 2, the role
Unit == <<db, Rank(pc), IF Rank(pc) = 4 THEN pgRole ELSE <<>>>>

\* C24: a transaction is open only between the Begin and the Commit of one
\* unit of work (phase 1, one role of phase 2, phase 3); a step never takes
\* an open transaction into another unit, so each is committed or rolled
\* back before the next unit begins one, also when the unit fails.
C24_OneTransactionPerUnit ==
    [][/\ tx.open <=> pc \in TxPositions
       /\ tx'.open <=> pc' \in TxPositions
       /\ (tx.open /\ tx'.open) => Unit' = Unit
       /\ (~tx.open /\ tx'.open) => tx'.cat = cat[db]]_vars

\* C24 witness: the transaction of the second role of phase 2 is open after
\* those of phase 1 and of the first role were committed
C24_Witness ==
    /\ tx.open
    /\ pc = "syncApply"
    /\ SyncedRoles # {}
    /\ Named(1, "CREATE", <<>>) # {}

\* the call of fetchMembersRecursive that is about to run, if any
AtEntry == rpc = "run" /\ stack # <<>> /\ stack[Len(stack)].at = "entry"

\* C25: in one FetchGroupMembers call the members of a group are fetched
\* only when the group is not in processedGroups, and the fetch puts it
\* there; the set only grows during the call; a group that is in it is
\* returned from at once, with no lookup and no error; every call starts
\* with an empty set.
C25_GroupFetchedOnce ==
    [][/\ (rpc = "find" /\ rpc' = "run") => processedGroups' = {}
       /\ (rpc = "run" /\ rpc' = "run") => processedGroups \subseteq processedGroups'
       /\ AtEntry =>
              LET dn == stack[Len(stack)].groupDN
              IN IF dn \in processedGroups
                 THEN /\ stack' = SubSeq(stack, 1, Len(stack) - 1)
                      /\ UNCHANGED <<faults, processedGroups, userIDs, fetched, rpc>>
                 ELSE processedGroups' = processedGroups \cup {dn}]_vars

\* C25 witness: through a cycle of nested groups, a group that is
\* already in processedGroups is reached again
C25_Witness ==
    /\ AtEntry
    /\ stack[Len(stack)].groupDN \in processedGroups
    /\ Len(stack) > 2

\* the non-group entries under the group named cn that lack the identifying
\* attribute
Malformed(cn) ==
    LET roots == {dn \in DOMAIN directory : IsGroupEntry(dn) /\ directory[dn].cn = cn}
    IN {dn \in ReachableFrom(roots) : ~IsGroupEntry(dn) /\ directory[dn].uid = NoUid}

\* C26: a member that is no group and has no identifying attribute does not
\* fail the expansion: the call succeeds and its list holds every other leaf
\* under the group, wherever the member stands in its group's member list.
C26_MalformedEntrySkipped ==
    (/\ rpc = "done"
     /\ faults = 0
     /\ Cardinality(GroupsNamed(groupCN)) = 1
     /\ Malformed(groupCN) # {}) =>
        /\ fetched.err = ""
        /\ LeafIds(groupCN) \subseteq Range(fetched.list)

\* C26 witness: the group lists a member without the attribute next to two
\* that have it, and both are returned
C26_Witness ==
    /\ rpc = "done"
    /\ faults = 0
    /\ {"U1", "U2", "U3"} \subseteq directory["G1"].member
    /\ Range(fetched.list) = {n_a, n_b}

\* the statements of one kind sent in a phase, whatever the role
NamedAny(phase, op) == {s.name : s \in {x \in issued : x.phase = phase /\ x.op = op}}

\* C27: during a pass the members stored for every mapping and for every
\* target role are valid LDAP users of the pass, and no account is granted a
\* role in phase 2 and dropped in phase 3.
C27_DesiredWithinValid ==
    Rank(pc) \in 2..6 =>
        /\ \A i \in DOMAIN resolved : resolved[i] \subseteq allValidLdapUsers
        /\ \A role \in DOMAIN allRoleMappings :
               allRoleMappings[role] \subseteq allValidLdapUsers
        /\ NamedAny(2, "GRANT") \cap NamedAny(3, "DROP") = {}

\* C27 witness: a pass that granted a role to one account and dropped another
C27_Witness ==
    /\ pc = "close"
    /\ NamedAny(2, "GRANT") # {}
    /\ NamedAny(3, "DROP") # {}
    /\ \E role \in DOMAIN allRoleMappings : allRoleMappings[role] # {}

\* C28: after a pass without error in which two mappings name the same
\* target role, every member resolved for either of them holds the role.
C28_SharedRoleUnion ==
    (PassCompleted /\ Len(Prefixes) > 0) =>
        \A i, j \in DOMAIN resolved :
            (i # j /\ cfg.Roles[i].PostgresRole = cfg.Roles[j].PostgresRole) =>
                \A user \in resolved[i] \cup resolved[j] :
                    IsMember(cat[db], cfg.Roles[i].PostgresRole, user)

\* C29: while phase 2 runs, phase 1 has not failed and every valid LDAP user
\* is an account of the committed catalog; every account about to be granted
\* a role is an account inside the open transaction, and every account a
\* GRANT of phase 2 was sent for is an account of the catalog.
C29_GrantsNameAccounts ==
    /\ Rank(pc) = 4 =>
           /\ <<db, "provision">> \notin errs
           /\ allValidLdapUsers \subseteq cat[db].roles
    /\ pc = "syncApply" => usersToGrant \subseteq tx.cat.roles
    /\ Rank(pc) \in 4..6 => NamedAny(2, "GRANT") \subseteq cat[db].roles

\* C29 witness: phase 2 sent a GRANT for an account that phase 1 created
C29_Witness ==
    /\ Rank(pc) = 4
    /\ NamedAny(2, "GRANT") \cap Named(1, "CREATE", <<>>) # {}

\* EnsureUsersExist or a SyncRoleMembership returned an error in the run
PhaseError == \E e \in errs : e[2] \in {"provision", "sync"}

\* C30: an error of provisioning or of a membership sync ends the pass over
\* its database before any DROP ROLE; DeprovisionUsers is reached only with
\* every user provisioned and every role synced; and once such an error has
\* happened no catalog changes and no statement is sent.
C30_NoDropAfterError ==
    [][/\ \A e \in errs :
              e[2] \in {"provision", "sync"} =>
                  /\ pc = "exited"
                  /\ db = e[1]
                  /\ NamedAny(3, "DROP") = {}
       /\ Rank(pc) = 5 => (usersToCreate = {} /\ rolesLeft = {})
       /\ PhaseError => (cat' = cat /\ issued' = issued)]_vars

\* C30 witness: a membership sync failed and an account that phase 3 would
\* have dropped is still in the catalog
C30_Witness ==
    /\ pc = "exited"
    /\ <<db, "sync">> \in errs
    /\ UsersToDrop(ManagedMembers(cat[db], DefaultPostgresGroup, Prefixes),
                   allValidLdapUsers) # {}

=============================================================================
